---- MODULE Spec2Model ----
(***************************************************************************)
(* Model of lib/transportdata.py: seven pure functions over one-           *)
(* dimensional signals (symmetrize / antisymmetrize around a centre index, *)
(* by a fixed shift, for up/down sweeps, and de-interleaving).             *)
(*                                                                         *)
(* The module is Python 2 code (previewTransportData.py uses the print     *)
(* statement), so `/` between integers (len(y)/2, len(y)/4, idx*2) is      *)
(* floor division.  Signals are float arrays (measurement channels); a     *)
(* sample is modelled by an integer-valued float k, and the result of the  *)
(* float division s/2 by the reduced fraction <<num, den>>, den \in {1,2}. *)
(*                                                                         *)
(* An optional argument is a sequence of length <= 1: <<>> is Python's     *)
(* None (argument omitted), <<k>> is the integer k.                        *)
(***************************************************************************)
EXTENDS Integers, Sequences, FiniteSets, TLC

\* ---------------------------------------------------------------- bounds
MaxLen == 8
MaxVal == 1
MaxIdx == 4
MaxStep == 5

\* ---------------------------------------------------------------- inputs
Values == 0..MaxVal

SignalsOfLen(n) == [1..n -> Values]

Signals == UNION {SignalsOfLen(n) : n \in 0..MaxLen}

\* the signals of the documented scenarios
ScenarioSignals ==
  { <<1, 2, 3, 4, 5>>, <<0, 2, 4, 6>>, <<0, 1, 2, 3, 4, 5, 6, 7>>, <<7>> }

None == <<>>

OptIdx == {None} \cup {<<k>> : k \in 0..MaxIdx}

Steps == 1..MaxStep

\* ------------------------------------------------------- numpy / Python
Min(a, b) == IF a <= b THEN a ELSE b

\* float division by two of an integer-valued float, as a reduced fraction
Div2(s) == IF s % 2 = 0 THEN <<s \div 2, 1>> ELSE <<s, 2>>

\* Python truthiness of an optional integer: `not idx`
Falsy(v) == v = None \/ v = <<0>>

\* y[a:b] for 0 <= a, 0 <= b (0-based, end exclusive, clamped to len(y))
Slice(s, a, b) == SubSeq(s, a + 1, Min(b, Len(s)))

\* mutant: the second slice is not reversed
ReversedForgotten(s) == s

\* s[::-1]
Reversed(s) == [k \in 1..Len(s) |-> s[Len(s) + 1 - k]]

\* mutant: the element count is rounded down, dropping a last lone element
Stride2Floor(x, start) ==
  [k \in 1..((Len(x) - start) \div 2) |-> x[start + 2 * (k - 1) + 1]]

\* x[start::2]
Stride2(x, start) ==
  [k \in 1..((Len(x) - start + 1) \div 2) |-> x[start + 2 * (k - 1) + 1]]

\* mutant: an index past the end wraps around instead of raising
GetItemWrap(s, i) ==
  IF Len(s) = 0 THEN [ok |-> FALSE, v |-> 0]
  ELSE [ok |-> TRUE, v |-> s[(i % Len(s)) + 1]]

\* y[i] for an integer index: negative indices count from the end, an index
\* outside -len..len-1 raises IndexError
GetItem(s, i) ==
  IF 0 <= i /\ i < Len(s) THEN [ok |-> TRUE, v |-> s[i + 1]]
  ELSE IF i < 0 /\ -i <= Len(s) THEN [ok |-> TRUE, v |-> s[Len(s) + i + 1]]
  ELSE [ok |-> FALSE, v |-> 0]

\* results of a call
Ok(v) == [status |-> "ok", value |-> v]

Raise(kind) == [status |-> kind, value |-> <<>>]

\* (a + sign*b)/2 on two 1-d float arrays with numpy broadcasting: equal
\* lengths pair positionally, a length-1 operand is stretched to the other
\* length, any other pair of lengths raises ValueError
BroadcastHalf(a, b, sign) ==
  IF Len(a) = Len(b)
    THEN Ok([k \in 1..Len(a) |-> Div2(a[k] + sign * b[k])])
  ELSE IF Len(a) = 1
    THEN Ok([k \in 1..Len(b) |-> Div2(a[1] + sign * b[k])])
  ELSE IF Len(b) = 1
    THEN Ok([k \in 1..Len(a) |-> Div2(a[k] + sign * b[1])])
  ELSE Raise("ValueError")

\* ------------------------------------------------------- CenterSymmetry
\* the pivot chosen by lines 29-33 / 55-59
ZeroIdx(y, idx) == IF Falsy(idx) THEN Len(y) \div 2 ELSE idx[1]

\* mutant: the span end is min(len(y), 2*idx) on the implicit path too
ZeroIdxEndAlwaysMin(y, idx) == Min(Len(y), 2 * ZeroIdx(y, idx))

\* the span end chosen by lines 29-33 / 55-59
ZeroIdxEnd(y, idx) == IF Falsy(idx) THEN Len(y) ELSE Min(Len(y), idx[1] * 2)

\* lines 26-36 / 52-62: parity check, pivot and span end, then the sum
ZeroBody(y, idx, sign) ==
  IF Len(y) % 2 = 0 THEN Raise("Exception")
  ELSE LET i == ZeroIdx(y, idx)
           e == ZeroIdxEnd(y, idx)
       IN  BroadcastHalf(Slice(y, 0, i), Reversed(Slice(y, i + 1, e)), sign)

symmetrizeSignalZero(y, idx) == ZeroBody(y, idx, 1)

antiSymmetrizeSignalZero(y, idx) == ZeroBody(y, idx, -1)

\* -------------------------------------------------------- ShiftSymmetry
\* mutant: the partner of y[n] is taken step - 1 samples later
ShiftBodyOffByOne(y, symmetryStep, sign) ==
  IF Len(y) % 2 = 1 THEN Raise("Exception")
  ELSE LET half == Len(y) \div 2
       IN  IF \E n \in 0..(half - 1) : ~GetItem(y, n + symmetryStep - 1).ok
             THEN Raise("IndexError")
             ELSE Ok([k \in 1..half |->
                       Div2(GetItem(y, k - 1).v
                            + sign * GetItem(y, k - 2 + symmetryStep).v)])

\* lines 80-87 / 106-113: parity check, then the loop over range(0, len(y)/2)
ShiftBody(y, symmetryStep, sign) ==
  IF Len(y) % 2 = 1 THEN Raise("Exception")
  ELSE LET half == Len(y) \div 2
       IN  IF \E n \in 0..(half - 1) : ~GetItem(y, n + symmetryStep).ok
             THEN Raise("IndexError")
             ELSE Ok([k \in 1..half |->
                       Div2(GetItem(y, k - 1).v
                            + sign * GetItem(y, k - 1 + symmetryStep).v)])

symmetrizeSignal(y, symmetryStep) == ShiftBody(y, symmetryStep, 1)

antiSymmetrizeSignal(y, symmetryStep) == ShiftBody(y, symmetryStep, -1)

\* ------------------------------------------------------- UpDownSymmetry
\* mutant: the lower half is the first two quadrants
LowerHalfContiguous(y) ==
  Slice(y, 0, Len(y) \div 4)
    \o Slice(y, Len(y) \div 4, (2 * Len(y)) \div 4)

\* yL = hstack(y[0:len/4], y[2*len/4:3*len/4])
LowerHalf(y) ==
  Slice(y, 0, Len(y) \div 4)
    \o Slice(y, (2 * Len(y)) \div 4, (3 * Len(y)) \div 4)

\* mutant: the upper half misses the fourth quadrant
UpperHalfSecondOnly(y) == Slice(y, Len(y) \div 4, (2 * Len(y)) \div 4)

\* yU = hstack(y[len/4:2*len/4], y[3*len/4:])
UpperHalf(y) ==
  Slice(y, Len(y) \div 4, (2 * Len(y)) \div 4)
    \o Slice(y, (3 * Len(y)) \div 4, Len(y))

\* hstack of the two results; an exception of either call propagates, the
\* call on yL being evaluated first
HStackResults(rL, rU) ==
  IF rL.status # "ok" THEN rL
  ELSE IF rU.status # "ok" THEN rU
  ELSE Ok(rL.value \o rU.value)

symmetrizeSignalUpDown(y, symmetryStep) ==
  HStackResults(symmetrizeSignal(LowerHalf(y), symmetryStep),
                symmetrizeSignal(UpperHalf(y), symmetryStep))

antiSymmetrizeSignalUpDown(y, symmetryStep) ==
  HStackResults(antiSymmetrizeSignal(LowerHalf(y), symmetryStep),
                antiSymmetrizeSignal(UpperHalf(y), symmetryStep))

\* ---------------------------------------------------------- Deinterleave
separateAlternatingSignal(x) == Ok(<<Stride2(x, 0), Stride2(x, 1)>>)

\* ------------------------------------------------------------ the calls
VARIABLES
  y,        \* the signal the caller holds
  op,       \* the function whose result the caller holds ("none": no call pending)
  arg,      \* its second argument: idx (optional) or symmetryStep
  idx,      \* local idx of the centre functions after lines 29-33, if reached
  idx_end,  \* local idx_end of the centre functions, if reached
  result    \* what the call returned or raised

vars == <<y, op, arg, idx, idx_end, result>>

Init ==
  /\ y \in Signals \cup ScenarioSignals
  /\ op = "none"
  /\ arg = None
  /\ idx = None
  /\ idx_end = None
  /\ result = Ok(<<>>)

ZeroLocals(i) ==
  /\ idx' = IF Len(y) % 2 = 0 THEN None ELSE <<ZeroIdx(y, i)>>
  /\ idx_end' = IF Len(y) % 2 = 0 THEN None ELSE <<ZeroIdxEnd(y, i)>>

CallSymmetrizeSignalZero ==
  \E i \in OptIdx :
    /\ op = "none"
    /\ op' = "symmetrizeSignalZero"
    /\ arg' = i
    /\ ZeroLocals(i)
    /\ result' = symmetrizeSignalZero(y, i)
    /\ UNCHANGED y

CallAntiSymmetrizeSignalZero ==
  \E i \in OptIdx :
    /\ op = "none"
    /\ op' = "antiSymmetrizeSignalZero"
    /\ arg' = i
    /\ ZeroLocals(i)
    /\ result' = antiSymmetrizeSignalZero(y, i)
    /\ UNCHANGED y

CallSymmetrizeSignal ==
  \E s \in Steps :
    /\ op = "none"
    /\ op' = "symmetrizeSignal"
    /\ arg' = <<s>>
    /\ idx' = None /\ idx_end' = None
    /\ result' = symmetrizeSignal(y, s)
    /\ UNCHANGED y

CallAntiSymmetrizeSignal ==
  \E s \in Steps :
    /\ op = "none"
    /\ op' = "antiSymmetrizeSignal"
    /\ arg' = <<s>>
    /\ idx' = None /\ idx_end' = None
    /\ result' = antiSymmetrizeSignal(y, s)
    /\ UNCHANGED y

CallSymmetrizeSignalUpDown ==
  \E s \in Steps :
    /\ op = "none"
    /\ op' = "symmetrizeSignalUpDown"
    /\ arg' = <<s>>
    /\ idx' = None /\ idx_end' = None
    /\ result' = symmetrizeSignalUpDown(y, s)
    /\ UNCHANGED y

CallAntiSymmetrizeSignalUpDown ==
  \E s \in Steps :
    /\ op = "none"
    /\ op' = "antiSymmetrizeSignalUpDown"
    /\ arg' = <<s>>
    /\ idx' = None /\ idx_end' = None
    /\ result' = antiSymmetrizeSignalUpDown(y, s)
    /\ UNCHANGED y

CallSeparateAlternatingSignal ==
  /\ op = "none"
  /\ op' = "separateAlternatingSignal"
  /\ arg' = None
  /\ idx' = None /\ idx_end' = None
  /\ result' = separateAlternatingSignal(y)
  /\ UNCHANGED y

\* the caller has consumed the result (or handled the exception) and is ready
\* for the next call on its data
Continue ==
  /\ op # "none"
  /\ op' = "none"
  /\ arg' = None
  /\ idx' = None /\ idx_end' = None
  /\ result' = Ok(<<>>)
  /\ UNCHANGED y

Next ==
  \/ CallSymmetrizeSignalZero
  \/ CallAntiSymmetrizeSignalZero
  \/ CallSymmetrizeSignal
  \/ CallAntiSymmetrizeSignal
  \/ CallSymmetrizeSignalUpDown
  \/ CallAntiSymmetrizeSignalUpDown
  \/ CallSeparateAlternatingSignal
  \/ Continue

Spec == Init /\ [][Next]_vars

\* ------------------------------------------------------------ properties
N == Len(y)

ZeroOps == {"symmetrizeSignalZero", "antiSymmetrizeSignalZero"}

ShiftOps == {"symmetrizeSignal", "antiSymmetrizeSignal"}

UpDownOps == {"symmetrizeSignalUpDown", "antiSymmetrizeSignalUpDown"}

\* +1 for the symmetrizing functions, -1 for the antisymmetrizing ones
Sign ==
  IF op \in {"symmetrizeSignalZero", "symmetrizeSignal", "symmetrizeSignalUpDown"}
    THEN 1 ELSE -1

\* the fraction r = <<num, den>> is s / 2
IsHalfOf(r, s) == Len(r) = 2 /\ r[2] > 0 /\ 2 * r[1] = s * r[2]

\* C1: on an even-length signal with a positive step such that
\* (N/2 - 1) + step <= N - 1, symmetrizeSignal and antiSymmetrizeSignal return
\* exactly N/2 elements, element n being (y[n] + y[n+step]) / 2 resp.
\* (y[n] - y[n+step]) / 2; [0,2,4,6] with step 2 gives [2, 4] and [-2, -2].
C1_ShiftElements ==
  (op \in ShiftOps /\ N % 2 = 0 /\ (N \div 2 - 1) + arg[1] <= N - 1) =>
    /\ result.status = "ok"
    /\ Len(result.value) = N \div 2
    /\ \A n \in 0..(N \div 2 - 1) :
         IsHalfOf(result.value[n + 1], y[n + 1] + Sign * y[n + arg[1] + 1])
    /\ (y = <<0, 2, 4, 6>> /\ arg = <<2>>) =>
         result.value = IF Sign = 1 THEN << <<2, 1>>, <<4, 1>> >>
                                    ELSE << <<-2, 1>>, <<-2, 1>> >>

C1_Witness ==
  /\ op = "antiSymmetrizeSignal"
  /\ y = <<0, 2, 4, 6>>
  /\ arg = <<2>>
  /\ result = Ok(<< <<-2, 1>>, <<-2, 1>> >>)

\* C2: on an odd-length signal without a pivot the centre functions use pivot
\* N // 2 and span end N and return exactly N // 2 elements, element n being
\* (y[n] + y[N-1-n]) / 2 resp. (y[n] - y[N-1-n]) / 2.
C2_ImplicitCenter ==
  (op \in ZeroOps /\ arg = None /\ N % 2 = 1) =>
    /\ idx = <<N \div 2>>
    /\ idx_end = <<N>>
    /\ result.status = "ok"
    /\ Len(result.value) = N \div 2
    /\ \A n \in 0..(N \div 2 - 1) :
         IsHalfOf(result.value[n + 1], y[n + 1] + Sign * y[N - n])

C2_Witness ==
  /\ op = "antiSymmetrizeSignalZero"
  /\ arg = None
  /\ y = <<1, 2, 3, 4, 5>>
  /\ result = Ok(<< <<-2, 1>>, <<-1, 1>> >>)

\* the k-th of the four consecutive blocks of y of length N/4 (k = 1..4)
Quadrant(k) == SubSeq(y, (k - 1) * (N \div 4) + 1, k * (N \div 4))

Lower == Quadrant(1) \o Quadrant(3)

Upper == Quadrant(2) \o Quadrant(4)

ShiftOf(s) ==
  IF Sign = 1 THEN symmetrizeSignal(s, arg[1]) ELSE antiSymmetrizeSignal(s, arg[1])

\* C3: when N is divisible by 4 and both underlying shift calls succeed, the
\* up/down functions return the shift result of lower = Q1 ++ Q3 followed by
\* the shift result of upper = Q2 ++ Q4, of total length N/2; [0..7] with
\* step 2 gives [2, 3, 4, 5].
C3_UpDownConcat ==
  (/\ op \in UpDownOps
   /\ N % 4 = 0
   /\ ShiftOf(Lower).status = "ok"
   /\ ShiftOf(Upper).status = "ok") =>
    /\ result = Ok(ShiftOf(Lower).value \o ShiftOf(Upper).value)
    /\ Len(result.value) = N \div 2
    /\ (y = <<0, 1, 2, 3, 4, 5, 6, 7>> /\ arg = <<2>> /\ Sign = 1) =>
         result.value = << <<2, 1>>, <<3, 1>>, <<4, 1>>, <<5, 1>> >>

C3_Witness ==
  /\ op = "symmetrizeSignalUpDown"
  /\ y = <<0, 1, 2, 3, 4, 5, 6, 7>>
  /\ arg = <<2>>
  /\ result = Ok(<< <<2, 1>>, <<3, 1>>, <<4, 1>>, <<5, 1>> >>)

\* evens and odds taken in alternation, evens first
Interleave(evens, odds) ==
  [k \in 1..(Len(evens) + Len(odds)) |->
     IF k % 2 = 1 THEN evens[(k + 1) \div 2] ELSE odds[k \div 2]]

\* C4: separateAlternatingSignal never fails; it returns the elements at even
\* positions (ceil(N/2) of them) and those at odd positions (floor(N/2)), and
\* interleaving the two gives x back; [] gives ([], []) and [7] gives ([7], []).
C4_SeparateInvertible ==
  (op = "separateAlternatingSignal") =>
    /\ result.status = "ok"
    /\ Len(result.value) = 2
    /\ Len(result.value[1]) = (N + 1) \div 2
    /\ Len(result.value[2]) = N \div 2
    /\ \A k \in 1..((N + 1) \div 2) : result.value[1][k] = y[2 * k - 1]
    /\ \A k \in 1..(N \div 2) : result.value[2][k] = y[2 * k]
    /\ Interleave(result.value[1], result.value[2]) = y
    /\ (y = <<>>) => result.value = << <<>>, <<>> >>
    /\ (y = <<7>>) => result.value = << <<7>>, <<>> >>

C4_Witness ==
  /\ op = "separateAlternatingSignal"
  /\ N = 5
  /\ y[2] # y[1]
  /\ result.value[1] = <<y[1], y[3], y[5]>>
  /\ result.value[2] = <<y[2], y[4]>>

\* C5: the centre functions raise the odd-length error exactly when no pivot
\* is given and N is even; an explicit pivot on an even-length signal is not
\* rejected for its parity.
C5_ParityOnlyWithoutPivot ==
  (op \in ZeroOps) =>
    ((result.status = "Exception") <=> (arg = None /\ N % 2 = 0))

\* C6: on an even-length signal with a positive step < N for which n + step
\* exceeds N - 1 for some n < N/2, the shift functions fail and return no
\* sequence at all.
C6_ShiftOutOfRangeRejected ==
  (/\ op \in ShiftOps
   /\ N % 2 = 0
   /\ arg[1] < N
   /\ \E n \in 0..(N \div 2 - 1) : n + arg[1] > N - 1) =>
    /\ result.status # "ok"
    /\ result.value = <<>>

C6_Witness ==
  /\ op = "symmetrizeSignal"
  /\ y = <<0, 2, 4, 6>>
  /\ arg = <<3>>
  /\ result = Raise("IndexError")

\* C7 as stated: with N divisible by 4 the up/down functions succeed only if
\* N is divisible by 8, and fail with the odd-length error whenever N/4 is odd.
C7_NeedsDivisibleBy8 ==
  (op \in UpDownOps /\ N % 4 = 0) =>
    /\ (result.status = "ok" => N % 8 = 0)
    /\ ((N \div 4) % 2 = 1 => result.status = "Exception")

\* C7 amended: with N divisible by 4 the up/down functions never fail with the
\* odd-length error (lower and upper have the even length N/2); they succeed
\* exactly when N = 0 or step <= N/4 and fail with an index error otherwise.
C7_SucceedsIffStepFits ==
  (op \in UpDownOps /\ N % 4 = 0) =>
    /\ result.status # "Exception"
    /\ (result.status = "ok") <=> (N = 0 \/ arg[1] <= N \div 4)
    /\ (result.status = "ok") => Len(result.value) = N \div 2
    /\ (result.status # "ok") => result = Raise("IndexError")

C7_Witness ==
  /\ op = "antiSymmetrizeSignalUpDown"
  /\ N = 4
  /\ arg = <<1>>
  /\ result.status = "ok"
  /\ Len(result.value) = 2

\* C8: an explicit pivot 0 is a real pivot at position 0 and gives an empty
\* result for every signal; it never takes the implicit-pivot path (pivot
\* N // 2, span end N).
C8_ExplicitZeroPivot ==
  (op \in ZeroOps /\ arg = <<0>>) =>
    /\ result = Ok(<<>>)
    /\ idx = <<0>>
    /\ idx_end = <<0>>

\* C9: with an explicit pivot idx >= 1 the centre functions use span end
\* min(N, 2*idx) and return exactly idx elements, element n being
\* (y[n] + y[end-1-n]) / 2 resp. (y[n] - y[end-1-n]) / 2.
C9_ExplicitPivot ==
  (op \in ZeroOps /\ arg # None /\ arg # <<0>>) =>
    /\ idx_end = <<Min(N, 2 * arg[1])>>
    /\ result.status = "ok"
    /\ Len(result.value) = arg[1]
    /\ \A n \in 0..(arg[1] - 1) :
         /\ n + 1 \in DOMAIN y
         /\ Min(N, 2 * arg[1]) - n \in DOMAIN y
         /\ IsHalfOf(result.value[n + 1],
                     y[n + 1] + Sign * y[Min(N, 2 * arg[1]) - n])

\* C10 as stated: symmetrizeSignalZero([1,2,3,4,5]) without pivot uses pivot 2
\* and span end 5 and returns [2.5, 3.5].
C10_ScenarioAsStated ==
  (op = "symmetrizeSignalZero" /\ y = <<1, 2, 3, 4, 5>> /\ arg = None) =>
    /\ idx = <<2>>
    /\ idx_end = <<5>>
    /\ result = Ok(<< <<5, 2>>, <<7, 2>> >>)

\* C10 amended: symmetrizeSignalZero([1,2,3,4,5]) without pivot uses pivot 2
\* and span end 5 and returns [(1+5)/2, (2+4)/2] = [3, 3].
C10_Scenario ==
  (op = "symmetrizeSignalZero" /\ y = <<1, 2, 3, 4, 5>> /\ arg = None) =>
    /\ idx = <<2>>
    /\ idx_end = <<5>>
    /\ result = Ok(<< <<3, 1>>, <<3, 1>> >>)

C10_Witness ==
  /\ op = "symmetrizeSignalZero"
  /\ y = <<1, 2, 3, 4, 5>>
  /\ arg = None
  /\ result = Ok(<< <<3, 1>>, <<3, 1>> >>)

====
